---- MODULE Spec2Model ----
(***************************************************************************)
(* Model of fwf_handler.FWFHandler (src/fwf_handler.py): the tape (an      *)
(* OrderedDict from feature key to a dict holding 'location' and type      *)
(* metadata), its mutations, the fixed-width to csv conversion, the SQL    *)
(* data type inference and the MySQL script synthesis.                     *)
(*                                                                         *)
(* Every method is one action: the class is single threaded and each call  *)
(* runs to completion.  `call` records the method called and its           *)
(* arguments, `out` what the call left behind (the exception that          *)
(* escaped, the files it opened and wrote, what it printed and returned).  *)
(*                                                                         *)
(* Line 212 of the source writes a key:value comprehension inside list     *)
(* brackets; it is modelled as the mapping {k: v['location'] ...} that     *)
(* lines 213-221 go on to use.                                             *)
(***************************************************************************)
EXTENDS Integers, Sequences, FiniteSets, TLC

VARIABLES tape, call, out

vars == <<tape, call, out>>

(***************************************************************************)
(* Bounds of the model.                                                    *)
(***************************************************************************)
MaxPos == 2
MaxLines == 2

KeyNames == {"a", "b"}
Positions == 0..MaxPos
Locations == Positions \X Positions

\* Python's None, and the marker of a key a field's dict does not hold.
None == "None"
Absent == "<no such key>"

\* The raw lines readline() can return: a blank line and a data line, each
\* with its newline, and a last line that the file ends without a newline.
RawLines == {"\n", "1.5a\n"}
UnterminatedLine == "1."

RECURSIVE SeqsUpTo(_, _)
SeqsUpTo(S, n) ==
  IF n = 0 THEN {<<>>}
  ELSE LET shorter == SeqsUpTo(S, n - 1)
       IN shorter \cup {Append(q, x) : q \in {r \in shorter : Len(r) = n - 1}, x \in S}

\* A path handed to open(): either no such file, or a file of raw lines.
MissingFile == [exists |-> FALSE, lines |-> <<>>]
SourceLineSeqs ==
  SeqsUpTo(RawLines, MaxLines)
    \cup {Append(ls, UnterminatedLine) : ls \in SeqsUpTo(RawLines, MaxLines - 1)}
SourceFiles == {[exists |-> TRUE, lines |-> ls] : ls \in SourceLineSeqs}
SourcePaths == SourceFiles \cup {MissingFile}

(***************************************************************************)
(* The tape: an OrderedDict, modelled as the sequence of its items in      *)
(* insertion order.  An item is the key with the value dict's entries;     *)
(* a dict entry that is not there is Absent.                               *)
(***************************************************************************)
Field(k, loc, d, q) == [name |-> k, location |-> loc, dtype |-> d, sql_dtype |-> q]

TapeKeys(t) == {t[i].name : i \in 1..Len(t)}

IndexOf(t, k) == CHOOSE i \in 1..Len(t) : t[i].name = k

GetItem(t, k) == t[IndexOf(t, k)]

\* Mutant of SetItem: an existing key is deleted and inserted again at the end.
SetItemMovesToEnd(t, k, f) ==
  Append(SelectSeq(t, LAMBDA g : g.name # k), f)

\* OrderedDict.__setitem__: an existing key keeps its place, a new one goes last.
SetItem(t, k, f) ==
  IF k \in TapeKeys(t)
  THEN [t EXCEPT ![IndexOf(t, k)] = f]
  ELSE Append(t, f)

\* OrderedDict.pop of a key that is there.
Pop(t, k) ==
  LET i == IndexOf(t, k)
  IN SubSeq(t, 1, i - 1) \o SubSeq(t, i + 1, Len(t))

\* len() of a field's value dict: 'location' and the metadata entries it holds.
NKeys(f) == 1 + (IF f.dtype = Absent THEN 0 ELSE 1)
              + (IF f.sql_dtype = Absent THEN 0 ELSE 1)

(***************************************************************************)
(* __init__(tape): the handler copies whatever dict it is given, so the    *)
(* state after construction is any tape.  The value dicts of constructor   *)
(* tapes hold 'location' with 'dtype', with 'sql_dtype', or with both.     *)
(***************************************************************************)
MetaA == {<<None, Absent>>, <<Absent, None>>, <<Absent, "INT">>, <<None, None>>}
MetaB == {<<Absent, None>>, <<Absent, "INT">>}

FieldsOf(k, metas) == {Field(k, loc, m[1], m[2]) : loc \in Locations, m \in metas}

ConstructorTapes ==
  {<<>>} \cup {<<fa>> : fa \in FieldsOf("a", MetaA)}
         \cup {<<fb>> : fb \in FieldsOf("b", MetaB)}
         \cup {<<fa, fb>> : fa \in FieldsOf("a", MetaA), fb \in FieldsOf("b", MetaB)}
         \cup {<<fb, fa>> : fa \in FieldsOf("a", MetaA), fb \in FieldsOf("b", MetaB)}

NoCall == [op |-> "__init__", key |-> "", start |-> 0, end |-> 0, dtype |-> None,
           src |-> MissingFile, keys |-> {}, nlines |-> 0,
           infer |-> FALSE, script_path |-> None]

\* What a call that did nothing observable leaves behind.
NoOut == [exc |-> None, opened |-> FALSE, reads |-> 0, lines |-> <<>>,
          dtypes |-> <<>>, returned |-> FALSE,
          sink |-> [exists |-> FALSE, rows |-> <<>>], printed |-> <<>>,
          columns |-> <<>>, assignments |-> <<>>, create |-> "", load |-> "",
          scriptfile |-> FALSE]

Init ==
  /\ tape \in ConstructorTapes
  /\ call = NoCall
  /\ out = NoOut

(***************************************************************************)
(* Tape mutations.                                                         *)
(***************************************************************************)
\* Mutant of AddKeyValue: the location is stored as [end, start].
AddKeyValueSwapped(k, s, e, d) == Field(k, <<e, s>>, d, Absent)

\* The dict add_key stores (line 53): location and dtype, nothing else.
AddKeyValue(k, s, e, d) == Field(k, <<s, e>>, d, Absent)

\* add_key(key, start, end, dtype), every argument given (lines 47-52 read
\* from the console only for an argument left out).
AddKey(k, s, e, d) ==
  /\ tape' = SetItem(tape, k, AddKeyValue(k, s, e, d))
  /\ call' = [NoCall EXCEPT !.op = "add_key", !.key = k, !.start = s, !.end = e,
                            !.dtype = d]
  /\ out' = [NoOut EXCEPT !.returned = TRUE]

\* Line 67 unpacks the value dict into two names: it needs exactly two entries.
UnpackFails(f) == NKeys(f) # 2

\* alter_key_location(key, start, end), start and end given.
AlterKeyLocation(k, s, e) ==
  /\ call' = [NoCall EXCEPT !.op = "alter_key_location", !.key = k, !.start = s,
                            !.end = e]
  /\ IF k \notin TapeKeys(tape)
     THEN /\ tape' = tape
          /\ out' = [NoOut EXCEPT !.returned = TRUE]
     ELSE IF UnpackFails(GetItem(tape, k))
     THEN /\ tape' = tape
          /\ out' = [NoOut EXCEPT !.exc = "ValueError"]
     ELSE /\ tape' = SetItem(tape, k, AddKeyValue(k, s, e, None))
          /\ out' = [NoOut EXCEPT !.returned = TRUE]

\* remove_key(key)
RemoveKey(k) ==
  /\ tape' = IF k \in TapeKeys(tape) THEN Pop(tape, k) ELSE tape
  /\ call' = [NoCall EXCEPT !.op = "remove_key", !.key = k]
  /\ out' = [NoOut EXCEPT !.returned = TRUE]

DtypeArgs == {None, "INT"}

NextTape ==
  \/ \E k \in KeyNames, s \in Positions, e \in Positions, d \in DtypeArgs :
       AddKey(k, s, e, d)
  \/ \E k \in KeyNames, s \in Positions, e \in Positions : AlterKeyLocation(k, s, e)
  \/ \E k \in KeyNames : RemoveKey(k)

SpecTape == Init /\ [][NextTape]_vars

(***************************************************************************)
(* The decoder: line[slice(start, end)] for each location of the tape.     *)
(***************************************************************************)
Min(x, y) == IF x <= y THEN x ELSE y
Max(x, y) == IF x >= y THEN x ELSE y

\* How a Python slice bounds an index for a string of length n: a negative
\* index counts from the end, and every index is cut to 0..n.
SliceIndex(i, n) == IF i < 0 THEN Max(n + i, 0) ELSE Min(i, n)

\* Mutant of PySlice: the end offset is taken as inclusive.
PySliceEndInclusive(line, loc) ==
  LET n == Len(line)
      lo == SliceIndex(loc[1], n)
      hi == SliceIndex(loc[2] + 1, n)
  IN IF hi <= lo THEN "" ELSE SubSeq(line, lo + 1, hi)

\* line[slice(*s)] (lines 129 and 163); an empty or inverted range is "".
PySlice(line, loc) ==
  LET n == Len(line)
      lo == SliceIndex(loc[1], n)
      hi == SliceIndex(loc[2], n)
  IN IF hi <= lo THEN "" ELSE SubSeq(line, lo + 1, hi)

\* locs (line 113): the locations in tape order.
Locs(t) == [i \in 1..Len(t) |-> t[i].location]

\* col_names (line 112): the keys in tape order.
ColNames(t) == [i \in 1..Len(t) |-> t[i].name]

\* Mutant of DecodeLine: the values are written in reverse tape order.
DecodeLineReversed(line, locs) ==
  [i \in 1..Len(locs) |-> PySlice(line, locs[Len(locs) + 1 - i])]

\* The row written for one line (line 129).
DecodeLine(line, locs) == [i \in 1..Len(locs) |-> PySlice(line, locs[i])]

\* Mutant of DataRows: a blank line is skipped instead of written.
DataRowsSkipBlank(lines, locs) ==
  LET kept == SelectSeq(lines, LAMBDA l : l # "\n")
  IN [i \in 1..Len(kept) |-> DecodeLine(kept[i], locs)]

\* The rows the while loop of lines 123-132 writes, one per line read.
DataRows(lines, locs) == [i \in 1..Len(lines) |-> DecodeLine(lines[i], locs)]

\* The count printed at line 135: line_n - 1 once readline() has returned "".
FinishedAtLine(lines) == (1 + Len(lines)) - 1

\* Mutant of SinkFile: nothing reaches the sink unless a data row was written.
SinkFileLazy(header, rows) ==
  IF rows = <<>> THEN [exists |-> FALSE, rows |-> <<>>]
  ELSE [exists |-> TRUE, rows |-> <<header>> \o rows]

\* The sink once the with block of line 114 is left: open(csv_path, 'w')
\* created or truncated it and line 116 wrote the header, whatever happens
\* afterwards; closing flushes the rows written so far.
SinkFile(header, rows) == [exists |-> TRUE, rows |-> <<header>> \o rows]

\* to_csv(fwf_path, csv_path) with a csv_path that can be created.  The sink is
\* opened and the header written (lines 114-116) before the source is opened
\* (line 117), whose failure escapes as FileNotFoundError.
ToCsv(src) ==
  /\ tape' = tape
  /\ call' = [NoCall EXCEPT !.op = "to_csv", !.src = src]
  /\ IF ~src.exists
     THEN out' = [NoOut EXCEPT !.exc = "FileNotFoundError",
                               !.sink = SinkFile(ColNames(tape), <<>>)]
     ELSE out' = [NoOut EXCEPT !.returned = TRUE,
                               !.opened = TRUE,
                               !.reads = Len(src.lines) + 1,
                               !.sink = SinkFile(ColNames(tape),
                                                 DataRows(src.lines, Locs(tape))),
                               !.printed = <<FinishedAtLine(src.lines)>>]

NextCsv == \E src \in SourcePaths : ToCsv(src)

SpecCsv == Init /\ [][NextCsv]_vars

(***************************************************************************)
(* infer_sql_dtypes, a static method.                                      *)
(***************************************************************************)
\* The default of nlines_infer (lines 139 and 198).
DefaultNlinesInfer == 1000

\* The items of the tape whose key is in ks, in tape order.
RECURSIVE Restrict(_, _)
Restrict(t, ks) ==
  IF t = <<>> THEN <<>>
  ELSE IF t[1].name \in ks THEN <<t[1]>> \o Restrict(Tail(t), ks)
  ELSE Restrict(Tail(t), ks)

\* Mutant of NSampled: the loop tests lidx < nlines_infer.
NSampledOneShort(lines, n) == Min(Len(lines), Max(n - 1, 0))

\* How many rows the loop of lines 160-165 appends: it runs while a line was
\* read and lidx <= nlines_infer, lidx counting from 1.
NSampled(lines, n) == Min(Len(lines), Max(n, 0))

\* What infer_sql_dtypes(key_loc_dict, fwf_path, nlines_infer) leaves behind,
\* key_loc_dict given as the tape items it was built from.
\*  - no locations: {} is returned before the file is opened (lines 156-157);
\*  - the file is opened (line 158) and one line is read before the loop tests
\*    anything (line 160), one more after each row appended (line 164);
\*  - with no row sampled zip(*lines) is empty, the loop of line 168 does not
\*    run and {} is returned;
\*  - with a row sampled the first pass of the loop reads self.tape (line 171)
\*    in a static method, where the name self is not bound: NameError, before
\*    any data type is assigned (lines 172-190 are never reached).
InferSqlDtypes(items, src, n) ==
  LET k == NSampled(src.lines, n)
      sampled == DataRows(SubSeq(src.lines, 1, k), Locs(items))
  IN IF items = <<>> THEN [NoOut EXCEPT !.returned = TRUE]
     ELSE IF ~src.exists THEN [NoOut EXCEPT !.exc = "FileNotFoundError"]
     ELSE IF k = 0
     THEN [NoOut EXCEPT !.returned = TRUE, !.opened = TRUE, !.reads = 1]
     ELSE [NoOut EXCEPT !.exc = "NameError", !.opened = TRUE, !.reads = k + 1,
                        !.lines = sampled]

\* A call of the static method on the locations of some keys of the tape.
InferCall(ks, src, n) ==
  /\ tape' = tape
  /\ call' = [NoCall EXCEPT !.op = "infer_sql_dtypes", !.keys = ks, !.src = src,
                            !.nlines = n]
  /\ out' = InferSqlDtypes(Restrict(tape, ks), src, n)

(***************************************************************************)
(* to_mysql_table_script                                                   *)
(***************************************************************************)
\* "CHAR(%d)" % (loc1 - loc0)  (lines 173, 190, 221)
CharType(loc) == "CHAR(" \o ToString(loc[2] - loc[1]) \o ")"

\* Line 212 reads v['sql_dtype'] of every item: KeyError when one has none.
MissingSqlDtype(t) == \E i \in 1..Len(t) : t[i].sql_dtype = Absent

\* unknown_dtypes (line 212): the keys whose sql_dtype is None.
UnknownDtypes(t) == {t[i].name : i \in {j \in 1..Len(t) : t[j].sql_dtype = None}}

\* Lines 219-221: every unknown key gets the character type of its width.
AssignCharTypes(t) ==
  [i \in 1..Len(t) |->
     IF t[i].sql_dtype = None
     THEN [t[i] EXCEPT !.sql_dtype = CharType(t[i].location)]
     ELSE t[i]]

\* "%s %s" % (k, v['sql_dtype'])  (line 224)
ColumnClause(f) == f.name \o " " \o f.sql_dtype

\* Mutant of SubstrStart: the 0-based offset is passed on as it is.
SubstrStartZeroBased(loc) == loc[1]

\* "%s = SUBSTR(@var1,%d,%d)" % (k, loc[0] + 1, loc[1] - loc[0])  (lines 229-230)
SubstrStart(loc) == loc[1] + 1
SubstrLength(loc) == loc[2] - loc[1]
AssignmentClause(f) ==
  f.name \o " = SUBSTR(@var1," \o ToString(SubstrStart(f.location)) \o ","
         \o ToString(SubstrLength(f.location)) \o ")"

Columns(t) == [i \in 1..Len(t) |-> ColumnClause(t[i])]
Assignments(t) == [i \in 1..Len(t) |-> AssignmentClause(t[i])]

\* sep.join(clauses)
RECURSIVE Join(_, _)
Join(clauses, sep) ==
  IF clauses = <<>> THEN ""
  ELSE IF Len(clauses) = 1 THEN clauses[1]
  ELSE clauses[1] \o sep \o Join(Tail(clauses), sep)

TableName == "t"
FwfPath == "in.fwf"

\* create_table_str (lines 223-226) and load_infile_str (lines 228-232)
CreateTableStr(t) ==
  "CREATE TABLE " \o TableName \o " (\n\t" \o Join(Columns(t), ",\n\t") \o ");"
LoadInfileStr(t) ==
  "LOAD DATA INFILE '" \o FwfPath \o "' INTO TABLE " \o TableName
    \o "\n\t(@var1)\n\tSET\n\t" \o Join(Assignments(t), ",\n\t") \o ";"

\* Lines 222-237 on the tape t: the two statements are built, then either
\* returned or, with a sql_script_path, the file is opened for writing and
\* fout.writeline, which a file object does not have, raises AttributeError.
Render(t, path) ==
  LET built == [NoOut EXCEPT !.columns = Columns(t), !.assignments = Assignments(t),
                             !.create = CreateTableStr(t), !.load = LoadInfileStr(t)]
  IN IF path = None THEN [built EXCEPT !.returned = TRUE]
     ELSE [NoOut EXCEPT !.exc = "AttributeError", !.scriptfile = TRUE]

\* Lines 215-217: infer_sql_dtypes is called without nlines_infer, so with its
\* default; when it returns, line 216 reads the name known, which is bound
\* nowhere: NameError before any sql_dtype is stored.
InferBranch(t, src) ==
  LET inferred == InferSqlDtypes(Restrict(t, UnknownDtypes(t)), src, DefaultNlinesInfer)
  IN IF inferred.exc # None THEN inferred
     ELSE [inferred EXCEPT !.exc = "NameError", !.returned = FALSE]

\* to_mysql_table_script(table_name, fwf_path, sql_script_path, infer_dtypes);
\* nlines_infer is accepted and never used.
ToMysqlTableScript(src, infer, path) ==
  /\ call' = [NoCall EXCEPT !.op = "to_mysql_table_script", !.src = src,
                            !.infer = infer, !.script_path = path]
  /\ IF MissingSqlDtype(tape)
     THEN /\ tape' = tape
          /\ out' = [NoOut EXCEPT !.exc = "KeyError"]
     ELSE IF UnknownDtypes(tape) = {}
     THEN /\ tape' = tape
          /\ out' = Render(tape, path)
     ELSE IF infer
     THEN /\ tape' = tape
          /\ out' = InferBranch(tape, src)
     ELSE /\ tape' = AssignCharTypes(tape)
          /\ out' = Render(AssignCharTypes(tape), path)

SampleSizes == -1..MaxLines
ScriptPaths == {None, "out.sql"}

\* The files sampled: one of every length, data and blank lines alternating.
SampleLine(i) == IF i % 2 = 1 THEN "1.5a\n" ELSE "\n"
SampleFiles ==
  {[exists |-> TRUE, lines |-> [i \in 1..n |-> SampleLine(i)]] : n \in 0..MaxLines}
SamplePaths == SampleFiles \cup {MissingFile}

NextInfer ==
  \E ks \in {{}, TapeKeys(tape)}, src \in SamplePaths, n \in SampleSizes :
    InferCall(ks, src, n)

SpecInfer == Init /\ [][NextInfer]_vars

NextScript ==
  \E src \in SamplePaths, infer \in BOOLEAN, path \in ScriptPaths :
    ToMysqlTableScript(src, infer, path)

SpecScript == Init /\ [][NextScript]_vars

Next == NextTape \/ NextCsv \/ NextInfer \/ NextScript

Spec == Init /\ [][Next]_vars

(***************************************************************************)
(* Claims about the tape mutations (checked under SpecTape).               *)
(***************************************************************************)
RangesValid(t) == \A i \in 1..Len(t) : t[i].location[1] < t[i].location[2]

NamesUnique(t) == \A i, j \in 1..Len(t) : t[i].name = t[j].name => i = j

\* A step taken by add_key or by alter_key_location, from the call it records.
IsAddOrReplace == call'.op \in {"add_key", "alter_key_location"}
IsMutation == call'.op \in {"add_key", "alter_key_location", "remove_key"}

\* C1, as the spec states it: a mutation keeps start < end for every field,
\* and add_or_replace with end <= start fails with InvalidRangeError leaving
\* the tape exactly as it was.
C1_RangeRejected ==
  [][/\ (IsMutation /\ RangesValid(tape)) => RangesValid(tape')
     /\ (IsAddOrReplace /\ call'.end <= call'.start)
          => (out'.exc = "InvalidRangeError" /\ tape' = tape)]_vars

\* C1, amended: add_key checks no range.  Whatever start and end it is given
\* (end <= start included) it returns normally with location [start, end]
\* stored under the key, so a mutation keeps start < end for every field when
\* the range it is given has start < end, and remove_key always keeps it.
C1_RangeStoredAsGiven ==
  [][/\ call'.op = "add_key"
          => /\ out'.exc = None
             /\ call'.key \in TapeKeys(tape')
             /\ GetItem(tape', call'.key).location = <<call'.start, call'.end>>
     /\ (IsAddOrReplace /\ RangesValid(tape) /\ call'.start < call'.end)
          => RangesValid(tape')
     /\ (call'.op = "remove_key" /\ RangesValid(tape)) => RangesValid(tape')]_vars

\* add_key was called with end <= start and the inverted range is in the tape.
C1_InvertedRangeStored ==
  /\ call.op = "add_key"
  /\ call.end <= call.start
  /\ out.exc = None
  /\ call.key \in TapeKeys(tape)
  /\ GetItem(tape, call.key).location = <<call.start, call.end>>
  /\ ~RangesValid(tape)

\* The items of t other than key k, in order.
Others(t, k) == SelectSeq(t, LAMBDA f : f.name # k)

\* C10: across the mutations the names stay unique; add_or_replace of a name
\* that is there keeps its position and overwrites location and dtype, of a new
\* name appends it; remove of an absent name changes nothing; and no mutation
\* changes the values or the relative order of the other fields.
C10_ReplaceInPlace ==
  [][IsMutation =>
       LET k == call'.key
           stored == out'.exc = None /\ (call'.op = "add_key" \/ k \in TapeKeys(tape))
       IN /\ NamesUnique(tape) => NamesUnique(tape')
          /\ Others(tape', k) = Others(tape, k)
          /\ (IsAddOrReplace /\ stored /\ k \in TapeKeys(tape))
               => /\ Len(tape') = Len(tape)
                  /\ IndexOf(tape', k) = IndexOf(tape, k)
          /\ (IsAddOrReplace /\ stored /\ k \notin TapeKeys(tape))
               => /\ Len(tape') = Len(tape) + 1
                  /\ tape'[Len(tape')].name = k
          /\ (IsAddOrReplace /\ stored)
               => /\ GetItem(tape', k).location = <<call'.start, call'.end>>
                  /\ GetItem(tape', k).dtype = call'.dtype
          /\ (call'.op = "remove_key" /\ k \notin TapeKeys(tape)) => tape' = tape
          /\ call'.op = "remove_key" => k \notin TapeKeys(tape')]_vars

\* A key that is first of two was replaced in place with a new range and dtype.
C10_ReplacedFirstOfTwo ==
  /\ call.op = "add_key"
  /\ Len(tape) = 2
  /\ tape[1].name = call.key
  /\ tape[1].location = <<call.start, call.end>>
  /\ tape[1].dtype = "INT"
  /\ tape[2].sql_dtype = "INT"

(***************************************************************************)
(* Claims about to_csv (checked under SpecCsv).  to_csv leaves the tape    *)
(* alone, so the tape of the state is the tape the call ran with.          *)
(***************************************************************************)
Converted == call.op = "to_csv" /\ call.src.exists

\* C2: on a source of N lines, N >= 0, to_csv writes exactly N + 1 rows, the
\* header of field names and one row per input line, blank lines included,
\* and reports N as the count of lines processed.
C2_RowCount ==
  Converted =>
    LET n == Len(call.src.lines)
    IN /\ out.exc = None
       /\ out.sink.exists
       /\ Len(out.sink.rows) = n + 1
       /\ Len(out.sink.rows[1]) = Len(tape)
       /\ \A j \in 1..Len(tape) : out.sink.rows[1][j] = tape[j].name
       /\ \A i \in 1..n : Len(out.sink.rows[i + 1]) = Len(tape)
       /\ out.printed = <<n>>

\* A two line source whose second line is blank gave three rows.
C2_BlankLineCounted ==
  /\ Converted
  /\ Len(tape) = 2
  /\ call.src.lines = <<"1.5a\n", "\n">>
  /\ Len(out.sink.rows) = 3
  /\ out.printed = <<2>>

\* The characters of line at the 0-based offsets s .. e-1.
CharsAt(line, s, e) == SubSeq(line, s + 1, e)

\* The three properties C3 states of the value v sliced from line for (s, e).
SliceAsStated(v, line, s, e, width) ==
  /\ Len(v) <= width
  /\ Len(line) >= e => v = CharsAt(line, s, e)
  /\ Len(line) < s => v = ""

C4_OrderPreserved ==
  Converted =>
    /\ out.sink.rows[1] = [j \in 1..Len(tape) |-> tape[j].name]
    /\ Len(out.sink.rows) = Len(call.src.lines) + 1
    /\ \A i \in 1..Len(call.src.lines) :
         out.sink.rows[i + 1] =
           [j \in 1..Len(tape) |-> PySlice(call.src.lines[i], tape[j].location)]

\* Two different lines and two different fields, "b" first in the tape, came
\* out in their order.
C4_TwoLinesTwoFields ==
  /\ Converted
  /\ call.src.lines = <<"\n", "1.5a\n">>
  /\ Len(tape) = 2
  /\ tape[1].name = "b"
  /\ tape[1].location = <<0, 1>>
  /\ tape[2].location = <<1, 2>>
  /\ out.sink.rows = << <<"b", "a">>, <<"\n", "">>, <<"1", ".">> >>

SourceMissing == call.op = "to_csv" /\ ~call.src.exists

\* C8, as the spec states it: when the source cannot be opened to_csv fails
\* before any partial processing, the sink neither created nor truncated and
\* no header row written to it.
C8_FailsBeforeSink ==
  SourceMissing =>
    /\ out.exc # None
    /\ ~out.sink.exists
    /\ out.sink.rows = <<>>

\* C8, amended: when the source cannot be opened to_csv fails with the error
\* of open() (FileNotFoundError), after the sink has been created or truncated
\* and the header row written: the sink is left holding exactly the header row,
\* no line is read or reported and nothing is returned.
C8_FailsAfterHeader ==
  SourceMissing =>
    /\ out.exc = "FileNotFoundError"
    /\ ~out.returned
    /\ out.sink.exists
    /\ out.sink.rows = <<[j \in 1..Len(tape) |-> tape[j].name]>>
    /\ out.reads = 0
    /\ out.printed = <<>>

\* The source was missing and the sink holds the header of a two field tape.
C8_HeaderOnlySink ==
  /\ SourceMissing
  /\ out.exc = "FileNotFoundError"
  /\ Len(tape) = 2
  /\ out.sink.rows = << <<"a", "b">> >>

(***************************************************************************)
(* Claims about infer_sql_dtypes (checked under SpecInfer).                *)
(***************************************************************************)
Inferred == call.op = "infer_sql_dtypes"

\* The items infer_sql_dtypes was called on, and the lines of its source.
InferItems == Restrict(tape, call.keys)
SourceLines == call.src.lines

Whitespace == {" ", "\t", "\n", "\r"}
Digits == {"0", "1", "2", "3", "4", "5", "6", "7", "8", "9"}

CharOf(v, i) == SubSeq(v, i, i)

\* v without its leading and trailing whitespace.
RECURSIVE Strip(_)
Strip(v) ==
  IF v = "" THEN ""
  ELSE IF CharOf(v, 1) \in Whitespace THEN Strip(SubSeq(v, 2, Len(v)))
  ELSE IF CharOf(v, Len(v)) \in Whitespace THEN Strip(SubSeq(v, 1, Len(v) - 1))
  ELSE v

AllDigits(v) == \A i \in 1..Len(v) : CharOf(v, i) \in Digits

\* An integer literal: digits, after an optional sign.
IsIntegerLiteral(v) ==
  LET w == Strip(v)
      body == IF w # "" /\ CharOf(w, 1) \in {"+", "-"} THEN SubSeq(w, 2, Len(w)) ELSE w
  IN body # "" /\ AllDigits(body)

\* A floating-point literal: digits with at most one point, after an optional sign.
IsFloatLiteral(v) ==
  LET w == Strip(v)
      body == IF w # "" /\ CharOf(w, 1) \in {"+", "-"} THEN SubSeq(w, 2, Len(w)) ELSE w
      points == {i \in 1..Len(body) : CharOf(body, i) = "."}
  IN /\ Cardinality(points) <= 1
     /\ \E i \in 1..Len(body) : CharOf(body, i) \in Digits
     /\ \A i \in 1..Len(body) : CharOf(body, i) \in Digits \cup {"."}

\* The type C6 gives a field from its sampled values.
StatedType(values, loc) ==
  LET kept == SelectSeq(values, LAMBDA v : Strip(v) # "")
      all(P(_)) == \A i \in 1..Len(kept) : P(kept[i])
  IN IF kept = <<>> THEN "CHAR(" \o ToString(loc[2] - loc[1]) \o ")"
     ELSE IF all(IsIntegerLiteral) THEN "INT"
     ELSE IF all(IsFloatLiteral) THEN "FLOAT"
     ELSE "CHAR(" \o ToString(loc[2] - loc[1]) \o ")"

\* The values sampled for the item at position j: one per line read, at most
\* nlines_infer of them.
SampledValues(j) ==
  LET n == IF call.nlines < Len(SourceLines)
           THEN (IF call.nlines < 0 THEN 0 ELSE call.nlines)
           ELSE Len(SourceLines)
  IN [i \in 1..n |-> CharsAt(SourceLines[i], InferItems[j].location[1],
                             InferItems[j].location[2])]

\* C6: every field inferred gets the type of its sampled values: blank values
\* are discarded, then no value left gives CHAR(end - start), all integers
\* INT, otherwise all floats FLOAT, otherwise CHAR(end - start).  Stated for
\* the calls that sample at least one line of a source that opens.
C6_Classified ==
  (/\ Inferred /\ InferItems # <<>>
   /\ call.src.exists /\ SourceLines # <<>> /\ call.nlines > 0) =>
    /\ out.exc = None
    /\ out.returned
    /\ DOMAIN out.dtypes = call.keys
    /\ \A j \in 1..Len(InferItems) :
         out.dtypes[InferItems[j].name] =
           StatedType(SampledValues(j), InferItems[j].location)

\* C9, as the spec states it: with sample_size <= 0 or no field to infer an
\* empty mapping is returned and the source is neither opened nor read; with
\* sample_size > 0 exactly min(sample_size, lines in the source) rows are
\* collected.
C9_EmptyWithoutSource ==
  Inferred =>
    /\ (call.nlines <= 0 \/ call.keys = {})
         => (out.returned /\ out.dtypes = <<>> /\ ~out.opened /\ out.reads = 0)
    /\ (call.nlines > 0 /\ call.keys # {} /\ call.src.exists)
         => Len(out.lines) = Min(call.nlines, Len(SourceLines))

\* C9, amended: only the call with no field returns without touching the
\* source.  With at least one field and sample_size <= 0 the source is opened
\* (the call fails when it cannot be), one line is read, no row is collected
\* and an empty mapping is returned; with sample_size > 0 and a source that
\* opens, exactly min(sample_size, lines in the source) rows are collected.
C9_EmptyOnlyWithoutFields ==
  Inferred =>
    /\ call.keys = {}
         => (out.returned /\ out.dtypes = <<>> /\ ~out.opened /\ out.reads = 0)
    /\ (call.keys # {} /\ ~call.src.exists)
         => (out.exc = "FileNotFoundError" /\ ~out.returned)
    /\ (call.keys # {} /\ call.src.exists /\ call.nlines <= 0)
         => /\ out.returned /\ out.dtypes = <<>>
            /\ out.opened /\ out.reads = 1 /\ out.lines = <<>>
    /\ (call.keys # {} /\ call.src.exists /\ call.nlines > 0)
         => /\ out.opened
            /\ Len(out.lines) = Min(call.nlines, Len(SourceLines))
            /\ out.reads = Len(out.lines) + 1

\* A sample of one row was collected from a source of two lines.
C9_SampleCutShort ==
  /\ Inferred
  /\ call.nlines = 1
  /\ Len(SourceLines) = 2
  /\ Len(InferItems) = 2
  /\ Len(out.lines) = 1
  /\ out.reads = 2

(***************************************************************************)
(* Claims about to_mysql_table_script (checked under SpecScript).          *)
(***************************************************************************)
Typed(f) == f.sql_dtype \notin {None, Absent}

\* C5: script synthesis, with inference enabled or disabled, leaves every
\* declared type as it was and writes a type into every field that had none.
\* Stated for the calls whose source opens and whose tape has an sql_dtype
\* entry, set or None, for every field.
C5_TypesKeptAndFilled ==
  [][(/\ call'.op = "to_mysql_table_script"
      /\ call'.src.exists
      /\ ~MissingSqlDtype(tape)) =>
       /\ Len(tape') = Len(tape)
       /\ \A i \in 1..Len(tape) :
            /\ Typed(tape[i]) => tape'[i].sql_dtype = tape[i].sql_dtype
            /\ Typed(tape'[i])]_vars

Rendered == call.op = "to_mysql_table_script" /\ out.returned

\* C7: the bulk load statement has, for every field in tape order, exactly one
\* assignment whose SUBSTR starts at start + 1 with length end - start, and the
\* create table statement has one column clause per field in the same order.
C7_OffsetTranslation ==
  Rendered =>
    /\ Len(out.assignments) = Len(tape)
    /\ Len(out.columns) = Len(tape)
    /\ \A i \in 1..Len(tape) :
         LET start == tape[i].location[1]
             end == tape[i].location[2]
         IN /\ out.assignments[i] =
                 tape[i].name \o " = SUBSTR(@var1," \o ToString(start + 1) \o ","
                   \o ToString(end - start) \o ")"
            /\ out.columns[i] = tape[i].name \o " " \o tape[i].sql_dtype

\* Both statements were rendered for a tape of two fields.
C7_TwoAssignments ==
  /\ Rendered
  /\ Len(tape) = 2
  /\ tape[1].location = <<1, 2>>
  /\ tape[2].location = <<0, 2>>
  /\ out.assignments = <<"a = SUBSTR(@var1,2,1)", "b = SUBSTR(@var1,1,2)">>
  /\ out.columns = <<"a CHAR(1)", "b INT">>

====
